---- MODULE Spec2Model ----
(* Model of mmu_t (riscv/mmu.h): the software TLB, the instruction cache,  *)
(* the aligned load/store accessors and the instruction fetch path, over a *)
(* byte-addressed backing memory that also holds the page tables.          *)
(* Addresses are offsets into the backing buffer (mem + offset in the      *)
(* code).  The host is little-endian.                                      *)
EXTENDS Integers, Sequences, FiniteSets, TLC

\* ---------------------------------------------------------------------
\* virtual memory configuration (mmu.h:11-17) and PTE fields (mmu.h:19-32)
\* ---------------------------------------------------------------------
LEVELS == 4
PGSHIFT == 12
PGSIZE == 2^PGSHIFT
PTESIZE == 8
PTIDXBITS == PGSHIFT - 3

PTE_T == 1
PTE_E == 2
PTE_UX == 16
PTE_UW == 32
PTE_UR == 64
PTE_SX == 128
PTE_SW == 256
PTE_SR == 512
PTE_PPN_SHIFT == 12

TLB_ENTRIES == 256
ICACHE_ENTRIES == 256
INSNSIZE == 4
DISPATCH_TABLE_SIZE == 1024

\* memset(tag, -1, ...): an all-ones tag, neither page- nor word-aligned
INVALID_TAG == -1

\* ---------------------------------------------------------------------
\* bounds of the model
\* ---------------------------------------------------------------------
\* number of operations in a run
MaxOps == 3

\* x has the single-bit mask b set (x & b)
HasBit(x, b) == (x \div b) % 2 = 1

\* addr & ~(PGSIZE-1) and addr & (PGSIZE-1)
PageBase(addr) == addr - (addr % PGSIZE)
PageOff(addr) == addr % PGSIZE

\* ---------------------------------------------------------------------
\* backing memory: a sparse byte array (bytes outside it read as zero)
\* ---------------------------------------------------------------------
\* page-table pages: root A (buffer offset 0) is a four-level tree, root B
\* is one page whose entry 0 is a table descriptor pointing back at itself
RootA == 0 * PGSIZE
L3A == 3 * PGSIZE
RootB == 4 * PGSIZE

\* virtual pages the accesses use; VP and VQ share a TLB slot
VP == 5
VQ == 5 + TLB_ENTRIES
VR == 6

\* 8-byte cells of the buffer the model keeps
DataPages == {VP, VQ, VR}
DataOffs == {0, 1024, 4088}
PteCells == {RootA, 1 * PGSIZE, 2 * PGSIZE,
             L3A + VP * PTESIZE, L3A + VR * PTESIZE, L3A + VQ * PTESIZE,
             RootB, RootB + VP * PTESIZE, RootB + VQ * PTESIZE}
Cells == {p * PGSIZE + o : p \in DataPages, o \in DataOffs} \cup PteCells
MemAddrs == UNION {c .. (c + 7) : c \in Cells}

\* little-endian bytes of a value below 2^31 (the type's value val)
Byte(v, i) == IF i < 4 THEN (v \div (256^i)) % 256 ELSE 0
Bytes(v, n) == [i \in 1..n |-> Byte(v, i - 1)]

\* pa lies in one of the cells
InCells(pa) ==
  LET pg == pa \div PGSIZE
      c == PageOff(pa) - (PageOff(pa) % 8)
  IN  \/ pg \in DataPages /\ c \in DataOffs
      \/ (pg * PGSIZE + c) \in PteCells
MemByte(m, pa) == IF InCells(pa) THEN m[pa] ELSE 0
\* *(type*)paddr
ReadBytes(m, pa, n) == [i \in 1..n |-> MemByte(m, pa + i - 1)]
\* *(type*)paddr = val
RECURSIVE WriteBytes(_, _, _, _)
WriteBytes(m, pa, v, n) ==
  IF n = 0 THEN m
  ELSE [WriteBytes(m, pa, v, n - 1) EXCEPT ![pa + n - 1] = Byte(v, n - 1)]

\* a PTE word as a number: permission/type bits and the page number
PteWord(tdesc, ppn) == tdesc + ppn * (2^PTE_PPN_SHIFT)
PTE_SUP == PTE_SR + PTE_SW + PTE_SX
PTE_USR == PTE_UR + PTE_UW + PTE_UX

\* pte_t read at a buffer offset: low 12 bits and the page number
PteFlags(m, pa) == MemByte(m, pa) + 256 * (MemByte(m, pa + 1) % 16)
PtePpn(m, pa) ==
  (MemByte(m, pa + 1) \div 16) + 16 * MemByte(m, pa + 2) + 4096 * (MemByte(m, pa + 3) % 128)

\* ---------------------------------------------------------------------
\* page-table walk, refill and the translate fast path.  S is the MMU
\* context: mem, badvaddr, ptbr, supervisor, vm_enabled and the TLB arrays
\* ---------------------------------------------------------------------
NoLeaf(n) == [fault |-> TRUE, flags |-> 0, ppn |-> 0, reads |-> n]

\* index slice of the virtual address at a level; model addresses are
\* below 2^31, so a slice that starts at bit 31 or above is zero
VpnSlice(addr, i) ==
  LET shift == PGSHIFT + (LEVELS - 1 - i) * PTIDXBITS
  IN  IF shift >= 31 THEN 0 ELSE (addr \div (2^shift)) % (2^PTIDXBITS)

\* walk_level that descends one level more before it gives up
RECURSIVE walk_level_deeper(_, _, _, _, _)
walk_level_deeper(m, addr, i, fl, ppn) ==
  IF HasBit(fl, PTE_E) /\ ~HasBit(fl, PTE_T)
    THEN [fault |-> FALSE, flags |-> fl, ppn |-> ppn, reads |-> i + 1]
  ELSE IF HasBit(fl, PTE_T) /\ ~HasBit(fl, PTE_E) /\ i < LEVELS
    THEN walk_level_deeper(m, addr, i + 1,
                    PteFlags(m, ppn * PGSIZE + VpnSlice(addr, i + 1) * PTESIZE),
                    PtePpn(m, ppn * PGSIZE + VpnSlice(addr, i + 1) * PTESIZE))
  ELSE NoLeaf(i + 1)

\* one level of the walk: the entry read at the level has the low bits fl
\* and the page number ppn
RECURSIVE walk_level(_, _, _, _, _)
walk_level(m, addr, i, fl, ppn) ==
  IF HasBit(fl, PTE_E) /\ ~HasBit(fl, PTE_T)
    THEN [fault |-> FALSE, flags |-> fl, ppn |-> ppn, reads |-> i + 1]
  ELSE IF HasBit(fl, PTE_T) /\ ~HasBit(fl, PTE_E) /\ i + 1 < LEVELS
    THEN walk_level(m, addr, i + 1,
                    PteFlags(m, ppn * PGSIZE + VpnSlice(addr, i + 1) * PTESIZE),
                    PtePpn(m, ppn * PGSIZE + VpnSlice(addr, i + 1) * PTESIZE))
  ELSE NoLeaf(i + 1)

walk_from(m, base, addr) ==
  walk_level(m, addr, 0, PteFlags(m, base + VpnSlice(addr, 0) * PTESIZE),
                         PtePpn(m, base + VpnSlice(addr, 0) * PTESIZE))

\* pte_t walk(reg_t addr)
walk(S, addr) == walk_from(S.mem, S.ptbr, addr)

\* the permission bit an access needs: {kind}{privilege}
ReqPerm(sup, store, fetch) ==
  IF sup THEN (IF fetch THEN PTE_SX ELSE IF store THEN PTE_SW ELSE PTE_SR)
         ELSE (IF fetch THEN PTE_UX ELSE IF store THEN PTE_UW ELSE PTE_UR)

Kind(store, fetch) == IF fetch THEN "fetch" ELSE IF store THEN "store" ELSE "load"

TlbIdx(addr) == (addr \div PGSIZE) % TLB_ENTRIES

\* a translation that faults: badvaddr is set, then the trap is thrown
Fault(S, trap, addr) ==
  [ok |-> FALSE, pa |-> -1, trap |-> trap, hit |-> FALSE,
   S |-> [S EXCEPT !.badvaddr = addr]]
Resolved(S, pa, hit) == [ok |-> TRUE, pa |-> pa, trap |-> "none", hit |-> hit, S |-> S]

\* the kind's tag array gets the page tag at the slot (tlb_data is one array)
InstallTag(S, store, fetch, idx, tag) ==
  IF fetch THEN [S EXCEPT !.tlb_insn_tag[idx] = tag]
  ELSE IF store THEN [S EXCEPT !.tlb_store_tag[idx] = tag]
  ELSE [S EXCEPT !.tlb_load_tag[idx] = tag]

\* refill once the walk has returned w
refill_pte(S, addr, store, fetch, w) ==
  IF w.fault THEN Fault(S, "page_fault_" \o Kind(store, fetch), addr)
  ELSE IF ~HasBit(w.flags, ReqPerm(S.supervisor, store, fetch))
    THEN Fault(S, "access_violation_" \o Kind(store, fetch), addr)
  ELSE Resolved([InstallTag(S, store, fetch, TlbIdx(addr), PageBase(addr))
                   EXCEPT !.tlb_data[TlbIdx(addr)] = w.ppn * PGSIZE],
                PageOff(addr) + w.ppn * PGSIZE, FALSE)

\* void* refill(reg_t addr, bool store, bool fetch)
refill(S, addr, store, fetch) ==
  IF ~S.vm_enabled THEN Resolved(S, addr, FALSE)
  ELSE refill_pte(S, addr, store, fetch, walk(S, addr))

\* reg_t* tlb_tag = fetch ? tlb_insn_tag : store ? tlb_store_tag : tlb_load_tag
TlbTag(S, store, fetch) ==
  IF fetch THEN S.tlb_insn_tag ELSE IF store THEN S.tlb_store_tag ELSE S.tlb_load_tag

\* void* translate(reg_t addr, bool store, bool fetch)
translate(S, addr, store, fetch) ==
  LET idx == TlbIdx(addr)
      expected_tag == PageBase(addr)
  IN  IF TlbTag(S, store, fetch)[idx] = expected_tag
        THEN Resolved(S, PageOff(addr) + S.tlb_data[idx], TRUE)
        ELSE refill(S, addr, store, fetch)

\* ---------------------------------------------------------------------
\* access front end.  Each returns the outcome of the call and the
\* context (and instruction cache) it leaves behind
\* ---------------------------------------------------------------------
\* type##_t load_##type(reg_t addr), n = sizeof(type##_t)
\* return *(type##_t*)paddr, t being what translate returned
load_at(t, n) ==
  [ok |-> t.ok, trap |-> t.trap, pa |-> t.pa, hit |-> t.hit,
   val |-> IF t.ok THEN ReadBytes(t.S.mem, t.pa, n) ELSE <<>>,
   S |-> t.S]

\* load_func with the alignment check made after the translation
load_func_late(S, addr, n) ==
  IF ~translate(S, addr, FALSE, FALSE).ok \/ addr % n = 0
    THEN load_at(translate(S, addr, FALSE, FALSE), n)
    ELSE [ok |-> FALSE, trap |-> "trap_load_address_misaligned", pa |-> -1,
          hit |-> FALSE, val |-> <<>>, S |-> [S EXCEPT !.badvaddr = addr]]

load_func(S, addr, n) ==
  IF addr % n # 0
    THEN [ok |-> FALSE, trap |-> "trap_load_address_misaligned", pa |-> -1,
          hit |-> FALSE, val |-> <<>>, S |-> [S EXCEPT !.badvaddr = addr]]
    ELSE load_at(translate(S, addr, FALSE, FALSE), n)

\* void store_##type(reg_t addr, type##_t val), n = sizeof(type##_t)
\* *(type##_t*)paddr = val, t being what translate returned
store_at(t, n, val) ==
  [ok |-> t.ok, trap |-> t.trap, pa |-> t.pa, hit |-> t.hit, val |-> <<>>,
   S |-> IF t.ok
           THEN [t.S EXCEPT !.mem = WriteBytes(t.S.mem, t.pa, val, n)]
           ELSE t.S]

store_func(S, addr, n, val) ==
  IF addr % n # 0
    THEN [ok |-> FALSE, trap |-> "trap_store_address_misaligned", pa |-> -1,
          hit |-> FALSE, val |-> <<>>, S |-> [S EXCEPT !.badvaddr = addr]]
    ELSE store_at(translate(S, addr, TRUE, FALSE), n, val)

\* processor_t::dispatch_table[insn.bits % processor_t::DISPATCH_TABLE_SIZE]:
\* the handle is identified with its table index, the 32-bit value of the
\* four bytes reduced modulo the table size
Dispatch(bits) ==
  (((bits[1] + 256 * bits[2]) % DISPATCH_TABLE_SIZE)
     + ((65536 % DISPATCH_TABLE_SIZE)
          * ((bits[3] + 256 * bits[4]) % DISPATCH_TABLE_SIZE)))
    % DISPATCH_TABLE_SIZE
\* INSN_IS_RVC(insn.bits)
INSN_IS_RVC(bits) == bits[1] % 4 # 3

IcacheIdx(addr) == (addr \div INSNSIZE) % ICACHE_ENTRIES

FetchFault(t, I, second) ==
  [ok |-> FALSE, trap |-> t.trap, pa |-> -1, hit |-> t.hit, ichit |-> FALSE,
   second |-> second, bits |-> <<>>, func |-> -1, S |-> t.S, I |-> I]

\* icache_fill that keeps the handle the slot held before
icache_fill_oldfunc(I, addr, insn) ==
  [icache_tag |-> [I.icache_tag EXCEPT ![IcacheIdx(addr)] = addr],
   icache_data |-> [I.icache_data EXCEPT ![IcacheIdx(addr)] = insn],
   icache_func |-> I.icache_func]

\* the cache slot a fetch fills
icache_fill(I, addr, insn) ==
  [icache_tag |-> [I.icache_tag EXCEPT ![IcacheIdx(addr)] = addr],
   icache_data |-> [I.icache_data EXCEPT ![IcacheIdx(addr)] = insn],
   icache_func |-> [I.icache_func EXCEPT ![IcacheIdx(addr)] = Dispatch(insn)]]

FetchOk(t, I, bits, func, second) ==
  [ok |-> TRUE, trap |-> "none", pa |-> t.pa, hit |-> t.hit, ichit |-> FALSE,
   second |-> second, bits |-> bits, func |-> func, S |-> t.S, I |-> I]

\* the upper half of an instruction across a word boundary: lo and hi are
\* what translate returned for addr and addr+2
fetch_hi(lo, hi, I, half) ==
  IF ~hi.ok THEN FetchFault([hi EXCEPT !.hit = lo.hit], I, TRUE)
  ELSE FetchOk([hi EXCEPT !.pa = lo.pa, !.hit = lo.hit], I,
               half \o ReadBytes(hi.S.mem, hi.pa, 2),
               Dispatch(half \o <<0, 0>>), TRUE)

\* fetch_lo that reads the upper half whatever the lower half encodes
fetch_lo_both(lo, I, addr, half) ==
  fetch_hi(lo, translate(lo.S, addr + 2, FALSE, TRUE), I, half)

\* fetch_lo that reports the fetch address when the upper half faults
fetch_lo_badlo(lo, I, addr, half) ==
  IF INSN_IS_RVC(half)
    THEN FetchOk(lo, I, half \o <<0, 0>>, Dispatch(half \o <<0, 0>>), FALSE)
    ELSE LET r == fetch_hi(lo, translate(lo.S, addr + 2, FALSE, TRUE), I, half)
         IN  IF r.ok THEN r ELSE [r EXCEPT !.S.badvaddr = addr]

\* fetch across word boundary, lo being what translate returned for addr
\* and half the two bytes read there
fetch_lo(lo, I, addr, half) ==
  IF INSN_IS_RVC(half)
    THEN FetchOk(lo, I, half \o <<0, 0>>, Dispatch(half \o <<0, 0>>), FALSE)
    ELSE fetch_hi(lo, translate(lo.S, addr + 2, FALSE, TRUE), I, half)

\* fetch_miss that has written the tag of the slot before translate threw
fetch_miss_tagfirst(t, I, addr, insn) ==
  IF ~t.ok
    THEN FetchFault(t, [I EXCEPT !.icache_tag[IcacheIdx(addr)] = addr], FALSE)
  ELSE FetchOk(t, icache_fill(I, addr, insn), insn, Dispatch(insn), FALSE)

\* an instruction cache miss, t being what translate returned for addr and
\* insn the four bytes read there
fetch_miss(t, I, addr, insn) ==
  IF ~t.ok THEN FetchFault(t, I, FALSE)
  ELSE FetchOk(t, icache_fill(I, addr, insn), insn, Dispatch(insn), FALSE)

FetchAt(t, n) == IF t.ok THEN ReadBytes(t.S.mem, t.pa, n) ELSE <<>>

\* the fetch across a word boundary once translate returned lo for addr
load_insn_rvc(S, I, addr, lo) ==
  IF ~lo.ok THEN FetchFault(lo, I, FALSE)
  ELSE fetch_lo(lo, I, addr, FetchAt(lo, 2))

\* the aligned fetch after a miss, once translate returned t for addr
load_insn_miss(S, I, addr, t) == fetch_miss(t, I, addr, FetchAt(t, INSNSIZE))

\* load_insn that compares the page of the tag only
load_insn_pagetag(S, I, addr, rvc) ==
  IF addr % 4 = 2 /\ rvc
    THEN load_insn_rvc(S, I, addr, translate(S, addr, FALSE, TRUE))
  ELSE IF PageBase(I.icache_tag[IcacheIdx(addr)]) = PageBase(addr)
    THEN [ok |-> TRUE, trap |-> "none", pa |-> -1, hit |-> FALSE,
          ichit |-> TRUE, second |-> FALSE, bits |-> I.icache_data[IcacheIdx(addr)],
          func |-> I.icache_func[IcacheIdx(addr)], S |-> S, I |-> I]
  ELSE load_insn_miss(S, I, addr, translate(S, addr, FALSE, TRUE))

\* load_insn that takes the slot's contents without comparing the tag
load_insn_anytag(S, I, addr, rvc) ==
  IF addr % 4 = 2 /\ rvc
    THEN load_insn_rvc(S, I, addr, translate(S, addr, FALSE, TRUE))
  ELSE [ok |-> TRUE, trap |-> "none", pa |-> -1, hit |-> FALSE,
        ichit |-> TRUE, second |-> FALSE, bits |-> I.icache_data[IcacheIdx(addr)],
        func |-> I.icache_func[IcacheIdx(addr)], S |-> S, I |-> I]

\* insn_t load_insn(reg_t addr, bool rvc, insn_func_t* func); I is the
\* instruction cache: icache_tag, icache_data, icache_func
load_insn(S, I, addr, rvc) ==
  IF addr % 4 = 2 /\ rvc
    THEN load_insn_rvc(S, I, addr, translate(S, addr, FALSE, TRUE))
  ELSE IF I.icache_tag[IcacheIdx(addr)] = addr
    THEN [ok |-> TRUE, trap |-> "none", pa |-> -1, hit |-> FALSE,
          ichit |-> TRUE, second |-> FALSE, bits |-> I.icache_data[IcacheIdx(addr)],
          func |-> I.icache_func[IcacheIdx(addr)], S |-> S, I |-> I]
  ELSE load_insn_miss(S, I, addr, translate(S, addr, FALSE, TRUE))

\* ---------------------------------------------------------------------
\* state
\* ---------------------------------------------------------------------
VARIABLES mem, badvaddr, ptbr, supervisor, vm_enabled,
          tlb_data, tlb_insn_tag, tlb_load_tag, tlb_store_tag,
          icache_data, icache_func, icache_tag,
          last, nops

vars == <<mem, badvaddr, ptbr, supervisor, vm_enabled,
          tlb_data, tlb_insn_tag, tlb_load_tag, tlb_store_tag,
          icache_data, icache_func, icache_tag, last, nops>>

\* the MMU context and the instruction cache as records
Ctx == [mem |-> mem, badvaddr |-> badvaddr, ptbr |-> ptbr,
        supervisor |-> supervisor, vm_enabled |-> vm_enabled,
        tlb_data |-> tlb_data, tlb_insn_tag |-> tlb_insn_tag,
        tlb_load_tag |-> tlb_load_tag, tlb_store_tag |-> tlb_store_tag]
Icache == [icache_tag |-> icache_tag, icache_data |-> icache_data,
           icache_func |-> icache_func]

SetCtx(S) ==
  /\ mem' = S.mem
  /\ badvaddr' = S.badvaddr
  /\ ptbr' = S.ptbr
  /\ supervisor' = S.supervisor
  /\ vm_enabled' = S.vm_enabled
  /\ tlb_data' = S.tlb_data
  /\ tlb_insn_tag' = S.tlb_insn_tag
  /\ tlb_load_tag' = S.tlb_load_tag
  /\ tlb_store_tag' = S.tlb_store_tag
SetIcache(I) ==
  /\ icache_tag' = I.icache_tag
  /\ icache_data' = I.icache_data
  /\ icache_func' = I.icache_func

\* the last call: its name, the trap it raised, whether it was served by
\* the TLB or the instruction cache, whether a fetch translated a second
\* time, whether a setter changed its field, whether the TLB and the
\* instruction cache held an entry when it was made, and the address
\* argument of set_ptbr and of load_insn
NoCall == [op |-> "none", trap |-> "none", hit |-> FALSE, ichit |-> FALSE,
           second |-> FALSE, changed |-> FALSE, cached |-> FALSE,
           icached |-> FALSE, arg |-> 0]

\* ---------------------------------------------------------------------
\* inputs
\* ---------------------------------------------------------------------
Widths == {1, 2, 4, 8}
\* an uncompressed instruction (as a PTE: invalid) and a leaf PTE for
\* page VP with all permissions (as an instruction: compressed)
Vals == {19, PteWord(PTE_E + PTE_SUP + PTE_USR, VP)}
LoadAddrs == {VP * PGSIZE, VP * PGSIZE + 1, VQ * PGSIZE, VR * PGSIZE}
\* the last one is the PTE of page VP in root A's leaf table
StoreAddrs == {VP * PGSIZE, VP * PGSIZE + 1, VQ * PGSIZE, L3A + VP * PTESIZE}
FetchAddrs == {VP * PGSIZE, VP * PGSIZE + 2, VP * PGSIZE + 1024,
               VP * PGSIZE + 4094, VQ * PGSIZE}
PtbrVals == {RootA, RootB + 4}

\* the arrays keep the slots these addresses select; no access of the model
\* reads or writes another slot
AllAddrs == LoadAddrs \cup StoreAddrs \cup FetchAddrs \cup {a + 2 : a \in FetchAddrs}
TlbSlots == {TlbIdx(a) : a \in AllAddrs}
IcacheSlots == {IcacheIdx(a) : a \in FetchAddrs}

\* ---------------------------------------------------------------------
\* construction: virtual memory off, unprivileged, caches invalid
\* ---------------------------------------------------------------------
InitPtes ==
  [c \in PteCells |->
     CASE c = RootA -> PteWord(PTE_T, 1)
       [] c = 1 * PGSIZE -> PteWord(PTE_T, 2)
       [] c = 2 * PGSIZE -> PteWord(PTE_T, 3)
       [] c = L3A + VP * PTESIZE -> PteWord(PTE_E + PTE_SUP + PTE_USR, VR)
       [] c = L3A + VR * PTESIZE -> PteWord(PTE_E + PTE_SUP, VP)
       [] c = L3A + VQ * PTESIZE -> PteWord(PTE_E + PTE_USR, VQ)
       [] c = RootB -> PteWord(PTE_T, 4)
       [] c = RootB + VP * PTESIZE -> PteWord(PTE_E + PTE_SUP + PTE_USR, VQ)
       [] c = RootB + VQ * PTESIZE -> PteWord(PTE_E + PTE_USR, VP)]

\* data pages hold an uncompressed instruction (0x13) at offset 0 and across
\* the end of the page (page VR: a compressed one in its last two bytes),
\* and a compressed one (0x01) at offset 1024
InitMem ==
  [a \in MemAddrs |->
     IF \E c \in PteCells : a \in c .. (c + 7)
       THEN LET c == CHOOSE c \in PteCells : a \in c .. (c + 7)
            IN  Bytes(InitPtes[c], 8)[a - c + 1]
     ELSE IF PageOff(a) = 4094 /\ a \div PGSIZE = VR THEN 1
     ELSE IF PageOff(a) \in {0, 4094} THEN 19
     ELSE IF PageOff(a) = 2 THEN (a \div PGSIZE) % 256
     ELSE IF PageOff(a) = 1024 THEN 1
     ELSE 0]

Init ==
  /\ mem = InitMem
  /\ badvaddr = 0
  /\ ptbr = 0
  /\ supervisor = FALSE
  /\ vm_enabled = FALSE
  /\ tlb_data = [i \in TlbSlots |-> 0]
  /\ tlb_insn_tag = [i \in TlbSlots |-> INVALID_TAG]
  /\ tlb_load_tag = [i \in TlbSlots |-> INVALID_TAG]
  /\ tlb_store_tag = [i \in TlbSlots |-> INVALID_TAG]
  /\ icache_tag = [i \in IcacheSlots |-> INVALID_TAG]
  /\ icache_data = [i \in IcacheSlots |-> <<0, 0, 0, 0>>]
  /\ icache_func = [i \in IcacheSlots |-> 0]
  /\ last = NoCall
  /\ nops = 0

\* ---------------------------------------------------------------------
\* operations
\* ---------------------------------------------------------------------
\* void mmu_t::flush_icache()
icache_flushed(I) ==
  [I EXCEPT !.icache_tag = [i \in DOMAIN I.icache_tag |-> INVALID_TAG]]

\* void mmu_t::flush_tlb(): the three tag arrays
tlb_flushed(S) ==
  [S EXCEPT !.tlb_insn_tag = [i \in DOMAIN S.tlb_insn_tag |-> INVALID_TAG],
            !.tlb_load_tag = [i \in DOMAIN S.tlb_load_tag |-> INVALID_TAG],
            !.tlb_store_tag = [i \in DOMAIN S.tlb_store_tag |-> INVALID_TAG]]

Step == nops < MaxOps /\ nops' = nops + 1

\* some slot of the TLB (of the instruction cache) holds a tag
TlbValid ==
  \E i \in TlbSlots : \/ tlb_insn_tag[i] # INVALID_TAG
                      \/ tlb_load_tag[i] # INVALID_TAG
                      \/ tlb_store_tag[i] # INVALID_TAG
IcacheValid == \E i \in IcacheSlots : icache_tag[i] # INVALID_TAG

flush_icache ==
  /\ Step
  /\ SetCtx(Ctx)
  /\ SetIcache(icache_flushed(Icache))
  /\ last' = [NoCall EXCEPT !.op = "flush_icache", !.cached = TlbValid,
                            !.icached = IcacheValid]

\* flush_tlb() ends by flushing the instruction cache
flush_tlb ==
  /\ Step
  /\ SetCtx(tlb_flushed(Ctx))
  /\ SetIcache(icache_flushed(Icache))
  /\ last' = [NoCall EXCEPT !.op = "flush_tlb", !.cached = TlbValid,
                            !.icached = IcacheValid]

\* set_ptbr without the call of flush_tlb
set_ptbr_noflush(addr) ==
  /\ Step
  /\ SetCtx([Ctx EXCEPT !.ptbr = PageBase(addr)])
  /\ SetIcache(Icache)
  /\ last' = [NoCall EXCEPT !.op = "set_ptbr", !.arg = addr,
                            !.changed = (PageBase(addr) # ptbr),
                            !.cached = TlbValid, !.icached = IcacheValid]

\* set_ptbr that stores addr as it is given
set_ptbr_nomask(addr) ==
  /\ Step
  /\ SetCtx(tlb_flushed([Ctx EXCEPT !.ptbr = addr]))
  /\ SetIcache(icache_flushed(Icache))
  /\ last' = [NoCall EXCEPT !.op = "set_ptbr", !.arg = addr,
                            !.changed = (addr # ptbr),
                            !.cached = TlbValid, !.icached = IcacheValid]

\* void set_ptbr(reg_t addr) { ptbr = addr & ~(PGSIZE-1); flush_tlb(); }
set_ptbr(addr) ==
  /\ Step
  /\ SetCtx(tlb_flushed([Ctx EXCEPT !.ptbr = PageBase(addr)]))
  /\ SetIcache(icache_flushed(Icache))
  /\ last' = [NoCall EXCEPT !.op = "set_ptbr", !.arg = addr,
                            !.changed = (PageBase(addr) # ptbr),
                            !.cached = TlbValid, !.icached = IcacheValid]

\* set_supervisor that also invalidates the TLB and the instruction cache
set_supervisor_flush(sup) ==
  /\ Step
  /\ SetCtx(tlb_flushed([Ctx EXCEPT !.supervisor = sup]))
  /\ SetIcache(icache_flushed(Icache))
  /\ last' = [NoCall EXCEPT !.op = "set_supervisor", !.changed = (sup # supervisor),
                            !.cached = TlbValid, !.icached = IcacheValid]

\* void set_supervisor(bool sup) { supervisor = sup; }
set_supervisor(sup) ==
  /\ Step
  /\ SetCtx([Ctx EXCEPT !.supervisor = sup])
  /\ SetIcache(Icache)
  /\ last' = [NoCall EXCEPT !.op = "set_supervisor", !.changed = (sup # supervisor),
                            !.cached = TlbValid, !.icached = IcacheValid]

\* void set_vm_enabled(bool en) { vm_enabled = en; }
set_vm_enabled(en) ==
  /\ Step
  /\ SetCtx([Ctx EXCEPT !.vm_enabled = en])
  /\ SetIcache(Icache)
  /\ last' = [NoCall EXCEPT !.op = "set_vm_enabled", !.changed = (en # vm_enabled),
                            !.cached = TlbValid, !.icached = IcacheValid]

Load(addr, n) ==
  /\ Step
  /\ \E r \in {load_func(Ctx, addr, n)} :
      /\ SetCtx(r.S)
      /\ SetIcache(Icache)
      /\ last' = [NoCall EXCEPT !.op = "load", !.trap = r.trap, !.hit = r.hit]

\* stores that resolve outside the modelled cells are not among the inputs
Store(addr, n, v) ==
  /\ Step
  /\ \E r \in {store_func(Ctx, addr, n, v)} :
      /\ r.ok => InCells(r.pa) /\ InCells(r.pa + n - 1)
      /\ SetCtx(r.S)
      /\ SetIcache(Icache)
      /\ last' = [NoCall EXCEPT !.op = "store", !.trap = r.trap, !.hit = r.hit]

\* the processor guarantees alignment based upon rvc mode
Fetch(addr, rvc) ==
  /\ Step
  /\ addr % (IF rvc THEN 2 ELSE 4) = 0
  /\ \E r \in {load_insn(Ctx, Icache, addr, rvc)} :
      /\ SetCtx(r.S)
      /\ SetIcache(r.I)
      /\ last' = [NoCall EXCEPT !.op = "fetch", !.trap = r.trap, !.hit = r.hit,
                                !.ichit = r.ichit, !.second = r.second,
                                !.arg = addr]

Next ==
  \/ flush_tlb
  \/ flush_icache
  \/ \E a \in PtbrVals : set_ptbr(a)
  \/ \E b \in BOOLEAN : set_supervisor(b)
  \/ \E b \in BOOLEAN : set_vm_enabled(b)
  \/ \E a \in LoadAddrs, n \in Widths : Load(a, n)
  \/ \E a \in StoreAddrs, n \in Widths, v \in Vals : Store(a, n, v)
  \/ \E a \in FetchAddrs, rvc \in BOOLEAN : Fetch(a, rvc)

Spec == Init /\ [][Next]_vars

\* ---------------------------------------------------------------------
\* reference translation: the table read from scratch, entry by entry
\* ---------------------------------------------------------------------
\* access kinds as translate's (store, fetch) flags
LoadK == <<FALSE, FALSE>>
StoreK == <<TRUE, FALSE>>
FetchK == <<FALSE, TRUE>>
Kinds == {LoadK, StoreK, FetchK}

RefPte(m, pa) ==
  MemByte(m, pa) + 256 * MemByte(m, pa + 1) + 65536 * MemByte(m, pa + 2)
    + 16777216 * (MemByte(m, pa + 3) % 128)

\* the leaf entry for address a, or -1 when none is found in LEVELS levels
RECURSIVE RefLeaf(_, _, _, _)
RefLeaf(m, base, a, lvl) ==
  IF lvl = LEVELS THEN -1
  ELSE LET vpn == a \div 4096
           e == RefPte(m, base + ((vpn \div (512^(LEVELS - 1 - lvl))) % 512) * 8)
       IN  IF e % 4 = 2 THEN e
           ELSE IF e % 4 = 1 THEN RefLeaf(m, (e \div 4096) * 4096, a, lvl + 1)
           ELSE -1

RefMapped(a) == RefLeaf(mem, ptbr, a, 0) # -1
RefOffset(a) == (RefLeaf(mem, ptbr, a, 0) \div 4096) * 4096 + (a % 4096)
\* the leaf grants the access kind at the current privilege level
RefPermitted(a, k) ==
  /\ RefMapped(a)
  /\ HasBit(RefLeaf(mem, ptbr, a, 0), ReqPerm(supervisor, k[1], k[2]))

\* addresses of every alignment, in pages of every mapping
AlignAddrs == {VP * PGSIZE + o : o \in {0, 1, 2, 4}}
                \cup {VR * PGSIZE + 1, L3A + VP * PTESIZE + 2}

\* ---------------------------------------------------------------------
\* C1: with virtual memory enabled, the location translate resolves for any
\* address and access kind is the one a from-scratch walk of the current
\* table under the current base yields, on a TLB hit as on a refill
\* ---------------------------------------------------------------------
C1_TranslateMatchesWalk ==
  vm_enabled =>
    \A a \in AllAddrs, k \in Kinds :
      \A t \in {translate(Ctx, a, k[1], k[2])} :
        t.ok => RefMapped(a) /\ t.pa = RefOffset(a)

\* ---------------------------------------------------------------------
\* C2: with virtual memory disabled every access resolves to its own
\* address, also after entries were cached while it was enabled
\* ---------------------------------------------------------------------
C2_IdentityWhenDisabled ==
  ~vm_enabled =>
    \A a \in AllAddrs, k \in Kinds :
      \A t \in {translate(Ctx, a, k[1], k[2])} : t.ok /\ t.pa = a

\* ---------------------------------------------------------------------
\* C3: an access to a mapped page whose leaf lacks the permission bit of
\* (access kind, current privilege level) raises an access violation and
\* does not complete: a failed store leaves memory as it was
\* ---------------------------------------------------------------------
C3_PermissionEnforced ==
  vm_enabled =>
    \A a \in AllAddrs, k \in Kinds :
      (RefMapped(a) /\ ~RefPermitted(a, k)) =>
        /\ \A t \in {translate(Ctx, a, k[1], k[2])} :
             ~t.ok /\ t.trap = "access_violation_" \o Kind(k[1], k[2])
        /\ \A v \in Vals : store_func(Ctx, a, 1, v).ok
                             \/ store_func(Ctx, a, 1, v).S.mem = mem

\* ---------------------------------------------------------------------
\* C4: load_w(a) and store_w(a, v) raise the misaligned fault of their kind
\* exactly when a mod (w/8) # 0, whatever the mapping of a's page; the
\* fault leaves a in badvaddr (and memory as it was)
\* ---------------------------------------------------------------------
C4_MisalignedIff ==
  /\ \A a \in AlignAddrs, n \in Widths :
       /\ \A r \in {load_func(Ctx, a, n)} :
            /\ (r.trap = "trap_load_address_misaligned") <=> (a % n # 0)
            /\ (a % n # 0) => ~r.ok /\ r.S.badvaddr = a
       /\ \A v \in Vals : \A r \in {store_func(Ctx, a, n, v)} :
            /\ (r.trap = "trap_store_address_misaligned") <=> (a % n # 0)
            /\ (a % n # 0) => ~r.ok /\ r.S.badvaddr = a /\ r.S.mem = mem
  /\ last.trap \in {"trap_load_address_misaligned", "trap_store_address_misaligned"}
       => badvaddr % 8 # 0

\* a misaligned load with virtual memory enabled
C4_Witness ==
  /\ last.op = "load" /\ last.trap = "trap_load_address_misaligned"
  /\ badvaddr = VP * PGSIZE + 1
  /\ vm_enabled

\* ---------------------------------------------------------------------
\* C5: right after set_ptbr or flush_tlb no TLB tag of any kind and slot
\* equals a page-aligned address, so an access of any kind to any page
\* misses in translate and is refilled
\* ---------------------------------------------------------------------
C5_TlbFlushed ==
  last.op \in {"set_ptbr", "flush_tlb"} =>
    /\ \A i \in TlbSlots :
         /\ tlb_insn_tag[i] % PGSIZE # 0
         /\ tlb_load_tag[i] % PGSIZE # 0
         /\ tlb_store_tag[i] % PGSIZE # 0
    /\ \A a \in AllAddrs, k \in Kinds : ~translate(Ctx, a, k[1], k[2]).hit

\* set_ptbr called while the TLB held a translation
C5_Witness == last.op = "set_ptbr" /\ last.cached /\ vm_enabled

\* ---------------------------------------------------------------------
\* C6: right after set_ptbr (and after flush_icache) no instruction cache
\* tag equals a fetch address: an aligned fetch misses, and returns the
\* bits at the location its address resolves to; after set_ptbr that is
\* the location a walk from the new base yields
\* ---------------------------------------------------------------------
C6_IcacheFlushed ==
  last.op \in {"set_ptbr", "flush_icache"} =>
    /\ \A i \in IcacheSlots, a \in FetchAddrs : icache_tag[i] # a
    /\ \A a \in {x \in FetchAddrs : x % 4 = 0} :
         \A r \in {load_insn(Ctx, Icache, a, FALSE)} :
           /\ ~r.ichit
           /\ r.ok => r.bits = ReadBytes(mem, translate(Ctx, a, FALSE, TRUE).pa, 4)
           /\ (r.ok /\ last.op = "set_ptbr") =>
                r.bits = ReadBytes(mem, IF vm_enabled THEN RefOffset(a) ELSE a, 4)

\* set_ptbr changed the base while the instruction cache held an entry
C6_Witness == last.op = "set_ptbr" /\ last.icached /\ last.changed /\ vm_enabled

\* ---------------------------------------------------------------------
\* C7: a change of the privilege flag or of the virtual-memory flag is a
\* synchronization point: the first access after it is not served by a
\* TLB or instruction cache entry installed before the change
\* ---------------------------------------------------------------------
C7_ModeChangeSynchronizes ==
  (last.op \in {"set_supervisor", "set_vm_enabled"} /\ last.changed) =>
    /\ \A a \in AllAddrs, k \in Kinds : ~translate(Ctx, a, k[1], k[2]).hit
    /\ \A a \in {x \in FetchAddrs : x % 4 = 0} :
         ~load_insn(Ctx, Icache, a, FALSE).ichit

\* ---------------------------------------------------------------------
\* C8: TLB transparency: an access has the same outcome (location, or
\* fault kind and address; value loaded; memory stored) whether or not
\* flush_tlb is called right before it.  No entry of the TLB outlives a
\* set_ptbr, so no set_ptbr lies between an access and the one that
\* installed the entry it hits
\* ---------------------------------------------------------------------
Outcome(t) == <<t.ok, t.pa, t.trap, IF t.ok THEN 0 ELSE t.S.badvaddr>>

C8_TlbTransparent ==
  \A a \in AllAddrs, k \in Kinds :
    Outcome(translate(Ctx, a, k[1], k[2]))
      = Outcome(translate(tlb_flushed(Ctx), a, k[1], k[2]))

\* ---------------------------------------------------------------------
\* C9: an aligned fetch that hits in the instruction cache returns the
\* bits a fresh fetch-kind translate and read of its address would return
\* ---------------------------------------------------------------------
C9_IcacheExact ==
  \A a \in {x \in FetchAddrs : x % 4 = 0} :
    icache_tag[IcacheIdx(a)] = a =>
      \A t \in {translate(Ctx, a, FALSE, TRUE)} :
        /\ t.ok
        /\ load_insn(Ctx, Icache, a, FALSE).bits = ReadBytes(mem, t.pa, INSNSIZE)

\* ---------------------------------------------------------------------
\* C10: store_w(a, v) then load_w(a), with or without flush_tlb and
\* flush_icache in between, returns v truncated to w bits when a is
\* w-aligned and its page is store- and load-accessible in the current mode
\* ---------------------------------------------------------------------
Accessible(a, k) == ~vm_enabled \/ RefPermitted(a, k)

C10_StoreLoadRoundTrip ==
  \A a \in StoreAddrs, n \in Widths, v \in Vals :
    (a % n = 0 /\ Accessible(a, StoreK) /\ Accessible(a, LoadK)) =>
      \A st \in {store_func(Ctx, a, n, v)} :
        /\ st.ok
        /\ (InCells(st.pa) /\ InCells(st.pa + n - 1)) =>
             \A S1 \in {st.S, tlb_flushed(st.S)} :
               \A ld \in {load_func(S1, a, n)} : ld.ok /\ ld.val = Bytes(v, n)

\* ---------------------------------------------------------------------
\* C11: when a load, store or fetch raises a page fault or an access
\* violation, badvaddr holds the virtual address whose translation failed
\* by the time the call returns to the caller; for a fetch across a word
\* boundary at a whose upper half fails to translate that address is a + 2
\* ---------------------------------------------------------------------
TransFaults ==
  {f \o "_" \o k : f \in {"page_fault", "access_violation"},
                   k \in {"load", "store", "fetch"}}

C11_FaultAddress ==
  [](/\ \A a \in LoadAddrs \cup StoreAddrs :
          /\ \A r \in {load_func(Ctx, a, 1)} :
               r.trap \in TransFaults => ~r.ok /\ r.S.badvaddr = a
          /\ \A r \in {store_func(Ctx, a, 1, 19)} :
               r.trap \in TransFaults => ~r.ok /\ r.S.badvaddr = a
     /\ \A a \in FetchAddrs, rvc \in BOOLEAN :
          a % (IF rvc THEN 2 ELSE 4) = 0 =>
            \A r \in {load_insn(Ctx, Icache, a, rvc)} :
              r.trap \in TransFaults =>
                ~r.ok /\ r.S.badvaddr = (IF r.second THEN a + 2 ELSE a)
     /\ (last.op = "fetch" /\ last.trap \in TransFaults) =>
          badvaddr = (IF last.second THEN last.arg + 2 ELSE last.arg))

\* a fetch across the end of page VP whose upper half, in the next page,
\* raised a page fault
C11_Witness ==
  /\ last.op = "fetch" /\ last.second /\ last.trap = "page_fault_fetch"
  /\ last.arg = VP * PGSIZE + 4094
  /\ badvaddr = (VP + 1) * PGSIZE

\* ---------------------------------------------------------------------
\* C12: ptbr is page-aligned in every reachable state: after set_ptbr(addr)
\* it is addr with the low PGSHIFT bits cleared, so set_ptbr(get_ptbr())
\* leaves it as it is, and no other operation changes it
\* ---------------------------------------------------------------------
C12_PtbrAligned ==
  /\ [](/\ ptbr % (2^12) = 0
        /\ PageBase(ptbr) = ptbr
        /\ last.op = "set_ptbr" => ptbr = last.arg - (last.arg % (2^12)))
  /\ [][/\ last'.op # "set_ptbr" => ptbr' = ptbr
        /\ (last'.op = "set_ptbr" /\ last'.arg = ptbr) => ptbr' = ptbr]_vars

\* set_ptbr called with an address that is not page-aligned
C12_Witness == last.op = "set_ptbr" /\ last.arg = RootB + 4 /\ ptbr = RootB

C14_ShortFormNoSecond ==
  [](\A a \in {x \in FetchAddrs : x % 4 = 2} :
       \A lo \in {translate(Ctx, a, FALSE, TRUE)}, r \in {load_insn(Ctx, Icache, a, TRUE)} :
         /\ ~lo.ok => ~r.ok /\ ~r.second /\ r.trap = lo.trap
         /\ (lo.ok /\ INSN_IS_RVC(ReadBytes(mem, lo.pa, 2))) =>
              /\ r.ok /\ ~r.second
              /\ r.bits = ReadBytes(mem, lo.pa, 2) \o <<0, 0>>
              /\ r.S = lo.S /\ r.I = Icache
         /\ (lo.ok /\ ~INSN_IS_RVC(ReadBytes(mem, lo.pa, 2))) =>
              /\ r.second
              /\ r.ok <=> translate(lo.S, a + 2, FALSE, TRUE).ok)

\* a compressed instruction fetched from the last two bytes of page VP
\* while the next page is not executable in the current mode
C14_Witness ==
  /\ last.op = "fetch" /\ last.arg = VP * PGSIZE + 4094
  /\ last.trap = "none" /\ ~last.second
  /\ vm_enabled
  /\ ~translate(Ctx, (VP + 1) * PGSIZE, FALSE, TRUE).ok

\* ---------------------------------------------------------------------
\* C15: an aligned fetch whose address equals the tag of its slot,
\* (address / 4) mod 256, translates nothing: it raises no fault, returns
\* the bits and the handle the slot holds and leaves the TLB tags and data,
\* badvaddr, memory and the instruction cache as they were; a tag that
\* differs from the address, in the same page or not, is no hit
\* ---------------------------------------------------------------------
C15_IcacheHitFrame ==
  /\ [](\A a \in {x \in FetchAddrs : x % 4 = 0}, rvc \in BOOLEAN :
          \A r \in {load_insn(Ctx, Icache, a, rvc)} :
            /\ icache_tag[(a \div 4) % 256] = a =>
                 /\ r.ok /\ r.ichit /\ r.trap = "none"
                 /\ r.bits = icache_data[(a \div 4) % 256]
                 /\ r.func = icache_func[(a \div 4) % 256]
                 /\ r.S = Ctx /\ r.I = Icache
            /\ icache_tag[(a \div 4) % 256] # a => ~r.ichit)
  /\ [][(last'.op = "fetch" /\ last'.ichit) =>
          /\ icache_tag[(last'.arg \div 4) % 256] = last'.arg
          /\ last'.trap = "none"
          /\ UNCHANGED <<mem, badvaddr, ptbr, supervisor, vm_enabled,
                         tlb_data, tlb_insn_tag, tlb_load_tag, tlb_store_tag,
                         icache_data, icache_func, icache_tag>>]_vars

\* a fetch served by the instruction cache while the slot had been used
\* and virtual memory is on
C15_Witness == last.op = "fetch" /\ last.ichit /\ vm_enabled

\* ---------------------------------------------------------------------
\* C16: the TLB slots of the three access kinds at one index are
\* independent: a load, store or fetch, whatever it refills, leaves for
\* each of the other two kinds every address hitting or missing as before
\* and every hit resolving to the location it resolved to before
\* ---------------------------------------------------------------------
\* the location a hit of kind k on address a resolves to, -1 on a miss
TlbView(S, a, k) ==
  IF TlbTag(S, k[1], k[2])[TlbIdx(a)] = PageBase(a)
    THEN PageOff(a) + S.tlb_data[TlbIdx(a)]
    ELSE -1

C16_KindsIndependent ==
  [][last'.op \in {"load", "store", "fetch"} =>
       \A a \in AllAddrs, k \in Kinds :
         Kind(k[1], k[2]) # last'.op => TlbView(Ctx', a, k) = TlbView(Ctx, a, k)]_vars

\* ---------------------------------------------------------------------
\* C17: set_supervisor and set_vm_enabled change their own flag and
\* nothing else: ptbr, badvaddr, the TLB tags and data, the instruction
\* cache and memory are as before the call
\* ---------------------------------------------------------------------
C17_SettersPure ==
  [][/\ last'.op = "set_supervisor" =>
          /\ UNCHANGED <<mem, badvaddr, ptbr, vm_enabled,
                         tlb_data, tlb_insn_tag, tlb_load_tag, tlb_store_tag,
                         icache_data, icache_func, icache_tag>>
          /\ last'.changed <=> supervisor' # supervisor
     /\ last'.op = "set_vm_enabled" =>
          /\ UNCHANGED <<mem, badvaddr, ptbr, supervisor,
                         tlb_data, tlb_insn_tag, tlb_load_tag, tlb_store_tag,
                         icache_data, icache_func, icache_tag>>
          /\ last'.changed <=> vm_enabled' # vm_enabled]_vars

\* the privilege flag changed while the TLB and the instruction cache
\* held entries, which are still there
C17_Witness ==
  /\ last.op = "set_supervisor" /\ last.changed
  /\ last.cached /\ last.icached
  /\ TlbValid /\ IcacheValid

\* ---------------------------------------------------------------------
\* C18: an access that raises a fault (misaligned, page fault, access
\* violation) fails as a whole: memory and the instruction cache are as
\* before, no TLB entry exists for the page whose translation faulted, and
\* the same access made again raises the same fault at the same address
\* ---------------------------------------------------------------------
C18_FaultFullyFails ==
  /\ [](/\ \A a \in AllAddrs, n \in {1, 4} :
             /\ \A r \in {load_func(Ctx, a, n)} :
                  ~r.ok =>
                    /\ r.trap # "none"
                    /\ r.S = [Ctx EXCEPT !.badvaddr = r.S.badvaddr]
                    /\ r.trap \in TransFaults => TlbView(r.S, r.S.badvaddr, LoadK) = -1
                    /\ \A q \in {load_func(r.S, a, n)} :
                         ~q.ok /\ q.trap = r.trap /\ q.S.badvaddr = r.S.badvaddr
             /\ \A r \in {store_func(Ctx, a, n, 19)} :
                  ~r.ok =>
                    /\ r.trap # "none"
                    /\ r.S = [Ctx EXCEPT !.badvaddr = r.S.badvaddr]
                    /\ r.trap \in TransFaults => TlbView(r.S, r.S.badvaddr, StoreK) = -1
                    /\ \A q \in {store_func(r.S, a, n, 19)} :
                         ~q.ok /\ q.trap = r.trap /\ q.S.badvaddr = r.S.badvaddr
        /\ \A a \in FetchAddrs, rvc \in BOOLEAN :
             a % (IF rvc THEN 2 ELSE 4) = 0 =>
               \A r \in {load_insn(Ctx, Icache, a, rvc)} :
                 ~r.ok =>
                   /\ r.trap # "none"
                   /\ r.S.mem = mem /\ r.I = Icache
                   /\ r.trap \in TransFaults => TlbView(r.S, r.S.badvaddr, FetchK) = -1
                   /\ \A q \in {load_insn(r.S, r.I, a, rvc)} :
                        ~q.ok /\ q.trap = r.trap /\ q.S.badvaddr = r.S.badvaddr)
  /\ [][last'.trap # "none" =>
          UNCHANGED <<mem, icache_data, icache_func, icache_tag>>]_vars

\* an aligned fetch of a page that is not executable in supervisor mode
C18_Witness ==
  /\ last.op = "fetch" /\ last.trap = "access_violation_fetch"
  /\ last.arg = VQ * PGSIZE /\ badvaddr = VQ * PGSIZE

\* ---------------------------------------------------------------------
\* C19: the walk of any address over any table ends after reading at most
\* LEVELS = 4 entries, also when table descriptors point back at their own
\* page; it ends in a fault exactly when no leaf is found within the four
\* levels
\* ---------------------------------------------------------------------
\* one address in each page the accesses touch; address 0 and the address
\* of root B walk through entry 0 of every level
WalkAddrs == {PageBase(a) + 8 : a \in AllAddrs} \cup {0, RootB}

C19_WalkBounded ==
  [](\A a \in WalkAddrs :
       \A w \in {walk(Ctx, a)}, l \in {RefLeaf(mem, ptbr, a, 0)} :
         /\ w.reads \in 1 .. 4
         /\ w.fault <=> l = -1
         /\ ~w.fault => w.ppn * 4096 + (a % 4096) = (l \div 4096) * 4096 + (a % 4096))

\* entry 0 of root B is a table descriptor for root B itself, and the walk
\* of address 0 from it gives up after four reads
C19_Witness ==
  /\ last.op = "set_ptbr" /\ ptbr = RootB
  /\ PteFlags(mem, RootB) = PTE_T /\ PtePpn(mem, RootB) * PGSIZE = RootB
  /\ walk(Ctx, 0).fault /\ walk(Ctx, 0).reads = 4

====
